---- MODULE Spec2Model ----
(***************************************************************************)
(* A model of thicc: the borrowed NUL-terminated wide string view WCStr<T> *)
(* (src/src/wcstr.rs) and the code-unit decoder Chars<T>                   *)
(* (src/src/char/convert.rs), for the four code-unit types u16, i16, u32   *)
(* and i32.                                                                *)
(*                                                                         *)
(* A buffer is a sequence of values of the code-unit type T.  Pointers are *)
(* 0-based offsets from the start of the buffer: offset i is buf[i + 1].   *)
(***************************************************************************)
EXTENDS Integers, Sequences, FiniteSets, TLC

VARIABLES
    ty,     \* the code-unit type T of the view: "u16", "i16", "u32", "i32"
    buf,    \* the caller-owned memory the view borrows (never written)
    cres,   \* how the view was constructed and what the constructor returned
    ptr,    \* Chars.ptr as an offset into buf; -1 while no cursor exists
    out,    \* the results the current cursor has returned so far, in order
    rd,     \* the offsets the last call of next() read
    ret,    \* the value the last view operation returned (op, n or s), and
            \* for len() how many calls in a row have returned it (k)
    ptr2    \* Chars.ptr of a second cursor on the same view; -1 while none

vars == <<ty, buf, cres, ptr, out, rd, ret, ptr2>>

-----------------------------------------------------------------------------
(* Bounds of the model.                                                    *)

\* The longest buffer, in code units (terminator included).
MaxLen == 3

\* How many times next() is called on a cursor that has returned None.
MaxNone == 2

\* How many times in a row len() is called.
MaxRepeat == 2

-----------------------------------------------------------------------------
(* Code-unit types and their conversions.                                  *)

Types == {"u16", "i16", "u32", "i32"}

Is16(t) == t \in {"u16", "i16"}

\* Wide::NUL, the NUL control character of every code-unit type.
NUL == 0

\* `*(iter.ptr as *const u16)`: the bits of a 16-bit unit read as a u16.
AsU16(x) == x % 65536

\* `mem::transmute(u)` of a u16 to T: the same bits read as T.
TransmuteU16(t, u) == IF t = "i16" /\ u >= 32768 THEN u - 65536 ELSE u

\* `*(iter.ptr as *const u32)`: the bits of a 32-bit unit read as a u32,
\* kept as its two 16-bit halves <<high, low>> (TLC's integers are 32 bits
\* wide, so a u32 of 2^31 or more has no integer of its own).
AsU32(x) == <<(x \div 65536) % 65536, x % 65536>>

\* `mem::transmute(u)` of a u32 to T: the same bits read as T.  Units of
\* type u32 are drawn below 2^31, so the value has an integer.
TransmuteU32(t, u) ==
    IF t = "i32" /\ u[1] >= 32768
    THEN (u[1] - 65536) * 65536 + u[2]
    ELSE u[1] * 65536 + u[2]

\* `a | b` on unsigned integers.
RECURSIVE BitOr(_, _)
BitOr(a, b) ==
    IF a = 0 THEN b
    ELSE IF b = 0 THEN a
    ELSE (IF a % 2 = 1 \/ b % 2 = 1 THEN 1 ELSE 0)
         + 2 * BitOr(a \div 2, b \div 2)

\* `x << 10` on a u32; x is at most 0x3FF where it is used, so no bit is
\* shifted out.
Shl10(x) == x * 1024

\* A variant of CharFromU32Valid whose upper limit is exclusive: it
\* refuses U+10FFFF.
CharFromU32Valid_ExclusiveMax(u) ==
    /\ u[1] < 16 \/ (u[1] = 16 /\ u[2] < \hFFFF)
    /\ ~(u[1] = 0 /\ u[2] >= \hD800 /\ u[2] <= \hDFFF)

\* A variant of CharFromU32Valid that only checks the upper limit: it
\* accepts the surrogate code points.
CharFromU32Valid_RangeOnly(u) == u[1] <= 16

\* char::from_u32 on the halves of a u32: a scalar value is at most
\* 0x10FFFF and is no surrogate code point.
CharFromU32Valid(u) ==
    /\ u[1] <= 16
    /\ ~(u[1] = 0 /\ u[2] >= \hD800 /\ u[2] <= \hDFFF)

\* char::REPLACEMENT_CHARACTER
REPLACEMENT_CHARACTER == \hFFFD

-----------------------------------------------------------------------------
(* Option<Result<char, DecodeWideError<T>>>.                                *)

None == [tag |-> "None", val |-> 0]

Ok(c) == [tag |-> "Ok", val |-> c]

\* Err(DecodeWideError { code }).
Err(code) == [tag |-> "Err", val |-> code]

\* The unit at offset i of the buffer b: `*ptr.add(i)`.
Read(b, i) == b[i + 1]

-----------------------------------------------------------------------------
(* The decoder: one call of <T as Decode>::next on a cursor at offset p.   *)
(* The result is the value returned, the cursor's new offset and the       *)
(* offsets read.                                                           *)

\* A variant of Lead16 that leaves out the offset 0x10000 of the
\* supplementary planes.
Lead16_NoOffset(t, b, p, u) ==
    LET u2 == AsU16(Read(b, p)) IN
    IF u2 = NUL \/ u2 < \hDC00 \/ u2 > \hDFFF
    THEN [res |-> Err(TransmuteU16(t, u)), ptr |-> p, rd |-> {p - 1, p}]
    ELSE [res |-> Ok(BitOr(Shl10(u - \hD800), u2 - \hDC00)),
          ptr |-> p + 1, rd |-> {p - 1, p}]

\* A variant of Lead16 whose error carries the lookahead unit u2 instead
\* of u.
Lead16_ErrCarriesLookahead(t, b, p, u) ==
    LET u2 == AsU16(Read(b, p)) IN
    IF u2 = NUL \/ u2 < \hDC00 \/ u2 > \hDFFF
    THEN [res |-> Err(TransmuteU16(t, u2)), ptr |-> p, rd |-> {p - 1, p}]
    ELSE [res |-> Ok(BitOr(Shl10(u - \hD800), u2 - \hDC00) + \h10000),
          ptr |-> p + 1, rd |-> {p - 1, p}]

\* A variant of Lead16 that consumes a lookahead unit that is neither NUL
\* nor a trailing surrogate.
Lead16_ConsumesLookahead(t, b, p, u) ==
    LET u2 == AsU16(Read(b, p)) IN
    IF u2 = NUL
    THEN [res |-> Err(TransmuteU16(t, u)), ptr |-> p, rd |-> {p - 1, p}]
    ELSE IF u2 < \hDC00 \/ u2 > \hDFFF
    THEN [res |-> Err(TransmuteU16(t, u)), ptr |-> p + 1, rd |-> {p - 1, p}]
    ELSE [res |-> Ok(BitOr(Shl10(u - \hD800), u2 - \hDC00) + \h10000),
          ptr |-> p + 1, rd |-> {p - 1, p}]

\* The leading surrogate branch: u is in [0xD800, 0xDBFF] and the cursor
\* has already moved past it to offset p.
Lead16(t, b, p, u) ==
    LET u2 == AsU16(Read(b, p)) IN
    IF u2 = NUL \/ u2 < \hDC00 \/ u2 > \hDFFF
    THEN [res |-> Err(TransmuteU16(t, u)), ptr |-> p, rd |-> {p - 1, p}]
    ELSE [res |-> Ok(BitOr(Shl10(u - \hD800), u2 - \hDC00) + \h10000),
          ptr |-> p + 1, rd |-> {p - 1, p}]

\* A variant of Next16 whose test for a trailing surrogate is u > 0xDC00:
\* it takes 0xDC00 for a leading surrogate.
Next16_TrailOffByOne(t, b, p) ==
    LET u == AsU16(Read(b, p)) IN
    IF u = NUL THEN [res |-> None, ptr |-> p, rd |-> {p}]
    ELSE IF u < \hD800 \/ \hDFFF < u
         THEN [res |-> Ok(u), ptr |-> p + 1, rd |-> {p}]
    ELSE IF u > \hDC00
         THEN [res |-> Err(TransmuteU16(t, u)), ptr |-> p + 1, rd |-> {p}]
    ELSE Lead16(t, b, p + 1, u)

\* A variant of Next16 whose test for a non-surrogate is u < 0xDC00: it
\* takes a leading surrogate for a scalar value.
Next16_LeadIsScalar(t, b, p) ==
    LET u == AsU16(Read(b, p)) IN
    IF u = NUL THEN [res |-> None, ptr |-> p, rd |-> {p}]
    ELSE IF u < \hDC00 \/ \hDFFF < u
         THEN [res |-> Ok(u), ptr |-> p + 1, rd |-> {p}]
    ELSE [res |-> Err(TransmuteU16(t, u)), ptr |-> p + 1, rd |-> {p}]

\* <u16 as Decode>::next and <i16 as Decode>::next
Next16(t, b, p) ==
    LET u == AsU16(Read(b, p)) IN
    IF u = NUL THEN [res |-> None, ptr |-> p, rd |-> {p}]
    ELSE IF u < \hD800 \/ \hDFFF < u
         THEN [res |-> Ok(u), ptr |-> p + 1, rd |-> {p}]
    ELSE IF u >= \hDC00
         THEN [res |-> Err(TransmuteU16(t, u)), ptr |-> p + 1, rd |-> {p}]
    ELSE Lead16(t, b, p + 1, u)

\* Variant that, after a unit that is no scalar value, also skips the unit
\* behind it unless that unit is the terminator.
Next32_SkipsAfterInvalid(t, b, p) ==
    LET u == AsU32(Read(b, p)) IN
    IF u = <<NUL, NUL>> THEN [res |-> None, ptr |-> p, rd |-> {p}]
    ELSE IF CharFromU32Valid(u)
         THEN [res |-> Ok(u[1] * 65536 + u[2]), ptr |-> p + 1, rd |-> {p}]
    ELSE [res |-> Err(TransmuteU32(t, u)),
          ptr |-> IF Read(b, p + 1) = NUL THEN p + 1 ELSE p + 2,
          rd |-> {p, p + 1}]

\* Variant that ends the iteration at a unit that is no scalar value.
Next32_StopsAtInvalid(t, b, p) ==
    LET u == AsU32(Read(b, p)) IN
    IF u = <<NUL, NUL>> THEN [res |-> None, ptr |-> p, rd |-> {p}]
    ELSE IF CharFromU32Valid(u)
         THEN [res |-> Ok(u[1] * 65536 + u[2]), ptr |-> p + 1, rd |-> {p}]
    ELSE [res |-> None, ptr |-> p, rd |-> {p}]

\* <u32 as Decode>::next and <i32 as Decode>::next
Next32(t, b, p) ==
    LET u == AsU32(Read(b, p)) IN
    IF u = <<NUL, NUL>> THEN [res |-> None, ptr |-> p, rd |-> {p}]
    ELSE IF CharFromU32Valid(u)
         THEN [res |-> Ok(u[1] * 65536 + u[2]), ptr |-> p + 1, rd |-> {p}]
    ELSE [res |-> Err(TransmuteU32(t, u)), ptr |-> p + 1, rd |-> {p}]

\* Iterator::next of Chars<T>: T::next(self).
DecodeNext(t, b, p) == IF Is16(t) THEN Next16(t, b, p) ELSE Next32(t, b, p)

-----------------------------------------------------------------------------
(* Length scan and needle search.                                          *)

\* The loop of the portable wcslen: the offset of the first NUL at or
\* after offset end.
RECURSIVE WcslenEnd(_, _)
WcslenEnd(b, end) ==
    IF Read(b, end) /= NUL THEN WcslenEnd(b, end + 1) ELSE end

\* A variant of wcslen that counts scalar values instead of units: it
\* leaves out the units of [0xDC00, 0xDFFF] (as 16-bit patterns), the
\* second halves of surrogate pairs.
wcslen_scalars(b, start) ==
    Cardinality({i \in start..(WcslenEnd(b, start) - 1) :
                    ~(\hDC00 <= Read(b, i) % 65536
                        /\ Read(b, i) % 65536 <= \hDFFF)})

\* SpecLen::wcslen(buf), with buf the pointer at offset start.
wcslen(b, start) == WcslenEnd(b, start) - start

\* Option<usize>
NoneIdx == [some |-> FALSE, val |-> 0]

SomeIdx(i) == [some |-> TRUE, val |-> i]

\* The loop of the portable wmemchr, at position pos of the haystack.
RECURSIVE WmemchrFrom(_, _, _)
WmemchrFrom(needle, haystack, pos) ==
    IF pos >= Len(haystack) THEN NoneIdx
    ELSE IF Read(haystack, pos) = needle THEN SomeIdx(pos)
    ELSE WmemchrFrom(needle, haystack, pos + 1)

\* <T as SpecWide>::wmemchr of char.rs, the portable path.
wmemchr_portable(needle, haystack) == WmemchrFrom(needle, haystack, 0)

\* SpecFind::wmemchr(needle, haystack) hands the search to the wmemchr
\* crate, which is outside the repository; by the specification of the
\* needle search it returns the index of the first occurrence of the needle
\* in the slice, or nothing.
wmemchr(needle, haystack) ==
    LET hits == {i \in 0..(Len(haystack) - 1) : Read(haystack, i) = needle}
    IN  IF hits = {} THEN NoneIdx
        ELSE SomeIdx(CHOOSE i \in hits : \A j \in hits : i <= j)

\* The loop of the counter-based portable wcslen of char.rs: the count
\* reached from len when the unit at buf.add(len) is NUL.
RECURSIVE WcslenCount(_, _, _)
WcslenCount(b, start, n) ==
    IF Read(b, start + n) /= NUL THEN WcslenCount(b, start, n + 1) ELSE n

\* A variant of wcslen_counter that returns the offset of the NUL in the
\* buffer instead of the count from the pointer it was given.
wcslen_counter_absolute(b, start) == start + WcslenCount(b, start, 0)

\* SpecWide::wcslen(buf) of char.rs, with buf the pointer at offset start.
wcslen_counter(b, start) == WcslenCount(b, start, 0)

\* libc::wcslen(buf), the specialized path of WChar: the number of wide
\* characters before the first null wide character (ISO C).
libc_wcslen(b, start) ==
    CHOOSE n \in 0..(Len(b) - start - 1) :
        /\ b[start + n + 1] = 0
        /\ \A m \in 0..(n - 1) : b[start + m + 1] /= 0

\* libc::wmemchr(haystack.as_ptr(), needle, haystack.len()): a pointer to
\* the first of the first n wide characters that equals the needle, or a
\* null pointer (ISO C).  The pointer is the offset into the haystack.
libc_wmemchr(haystack, needle, n) ==
    IF \E i \in 1..n : haystack[i] = needle
    THEN [null |-> FALSE,
          off |-> (CHOOSE i \in 1..n :
                      /\ haystack[i] = needle
                      /\ \A j \in 1..(i - 1) : haystack[j] /= needle) - 1]
    ELSE [null |-> TRUE, off |-> 0]

\* <WChar as SpecWide>::wmemchr of char.rs, the specialized path.
wmemchr_wchar(needle, haystack) ==
    LET p == libc_wmemchr(haystack, needle, Len(haystack)) IN
    IF p.null THEN NoneIdx ELSE SomeIdx(p.off)

-----------------------------------------------------------------------------
(* The view: WCStr<T>.                                                     *)

\* A variant of from_slice_with_nul whose test for the last position is
\* nul_pos != slice.len(): it refuses every slice that has a zero unit.
from_slice_with_nul_nosucc(slice) ==
    LET nul_pos == wmemchr(NUL, slice) IN
    IF nul_pos.some
    THEN IF nul_pos.val /= Len(slice)
         THEN [tag |-> "InteriorNul", pos |-> nul_pos.val]
         ELSE [tag |-> "Ok", pos |-> 0]
    ELSE [tag |-> "NotNulTerminated", pos |-> 0]

\* Result<&WCStr<T>, FromSliceWithNulError>: Ok(view at slice[0]),
\* Err(InteriorNul(pos)) or Err(NotNulTerminated).
from_slice_with_nul(slice) ==
    LET nul_pos == wmemchr(NUL, slice) IN
    IF nul_pos.some
    THEN IF nul_pos.val + 1 /= Len(slice)
         THEN [tag |-> "InteriorNul", pos |-> nul_pos.val]
         ELSE [tag |-> "Ok", pos |-> 0]
    ELSE [tag |-> "NotNulTerminated", pos |-> 0]

\* WCStr::len
len(b) == wcslen(b, 0)

\* WCStr::as_ptr: the address of the view, as an offset into the buffer.
as_ptr(b) == 0

\* WCStr::to_slice: slice::from_raw_parts(self.as_ptr(), len)
to_slice(b) == SubSeq(b, 1, len(b))

\* A variant of to_slice_with_nul that leaves out the `+ 1`.
to_slice_with_nul_short(b) == SubSeq(b, 1, len(b))

\* WCStr::to_slice_with_nul: slice::from_raw_parts(self.as_ptr(), len + 1)
to_slice_with_nul(b) == SubSeq(b, 1, len(b) + 1)

\* Result::unwrap_or(char::REPLACEMENT_CHARACTER)
UnwrapOr(r, default) == IF r.tag = "Ok" THEN r.val ELSE default

\* chars().map(..).collect() from a cursor at offset p: the chars of the
\* String, in order.
RECURSIVE Collect(_, _, _)
Collect(t, b, p) ==
    LET s == DecodeNext(t, b, p) IN
    IF s.res.tag = "None" THEN <<>>
    ELSE <<UnwrapOr(s.res, REPLACEMENT_CHARACTER)>> \o Collect(t, b, s.ptr)

\* A variant of to_string_lossy that drops the errors instead of replacing
\* them.
RECURSIVE CollectOk(_, _, _)
CollectOk(t, b, p) ==
    LET s == DecodeNext(t, b, p) IN
    IF s.res.tag = "None" THEN <<>>
    ELSE (IF s.res.tag = "Ok" THEN <<s.res.val>> ELSE <<>>)
            \o CollectOk(t, b, s.ptr)

to_string_lossy_skip(t, b) == CollectOk(t, b, 0)

\* WCStr::to_string_lossy
to_string_lossy(t, b) == Collect(t, b, 0)

-----------------------------------------------------------------------------
(* The buffers the callers supply.                                         *)

-----------------------------------------------------------------------------
(* Size hints of the cursor.                                               *)

\* A variant of size_hint16 whose lower bound is the unit count.
size_hint16_nohalf(n) == <<n, n>>

\* <u16 as Decode>::size_hint(wcslen): (lower, Some(upper)).
size_hint16(n) == <<n \div 2, n>>

\* <u32 as Decode>::size_hint(wcslen): (lower, Some(upper)).
size_hint32(n) == <<n, n>>

\* Iterator::size_hint of Chars<T>: T::size_hint(wcslen!(self)), for a
\* cursor at offset p.
size_hint(t, b, p) ==
    IF Is16(t) THEN size_hint16(wcslen_counter(b, p))
    ELSE size_hint32(wcslen_counter(b, p))

\* ExactSizeIterator::len of Chars<u32> and Chars<i32>: wcslen!(self).
exact_len(b, p) == wcslen_counter(b, p)

-----------------------------------------------------------------------------
(* The buffers the callers supply.                                         *)

\* The values of T the buffers are drawn from: NUL, an ASCII letter, the
\* four ends of the two surrogate ranges, and the replacement character
\* (16-bit) or the last scalar value, the first value beyond it and a value
\* with the top bits set (32-bit).
Units(t) ==
    CASE t = "u16" -> {0, \h41, \hD800, \hDBFF, \hDC00, \hDFFF, \hFFFD}
      [] t = "i16" -> {0, \h41, \hD800 - 65536, \hDBFF - 65536,
                       \hDC00 - 65536, \hDFFF - 65536, \hFFFD - 65536}
      [] t = "u32" -> {0, \h41, \hD800, \hDFFF, \h10FFFF, \h110000,
                       \h7FFFFFFF}
      [] t = "i32" -> {0, \h41, \hD800, \hDFFF, \h10FFFF, \h110000, -1}

\* The scalar values whose encodings are among the buffers.
ScalarSamples ==
    {0, \h41, \hD7FF, \hE000, \hFFFD, \hFFFF, \h10000, \h1F496, \h10FFFF}

\* The code units of the scalar value c in the encoding of T: UTF-16 (one
\* unit, or a surrogate pair above 0xFFFF) or UTF-32 (one unit).
EncodeWide(t, c) ==
    IF Is16(t)
    THEN IF c > \hFFFF
         THEN <<TransmuteU16(t, \hD800 + ((c - \h10000) \div 1024)),
                TransmuteU16(t, \hDC00 + ((c - \h10000) % 1024))>>
         ELSE <<TransmuteU16(t, c)>>
    ELSE <<c>>

BoundedSeq(S, n) == UNION {[1..k -> S] : k \in 0..n}

\* A sequence of 16-bit patterns as units of T.
AsUnits(t, s) ==
    [i \in DOMAIN s |-> IF Is16(t) THEN TransmuteU16(t, s[i]) ELSE s[i]]

\* The slice of the doc test of WCStr::chars.
CharsDocSlice ==
    <<\hD834, \hDD1E, \h6D, \h75, \h73, \hDD1E, \h69, \h63, \hD834, 0>>

\* The slice of the doc test of WCStr::len.
LenDocSlice == <<\hD834, \hDD1E, \h6D, \h75, \h73, \h69, \h63, 0>>

\* The slice of the interior NUL doc test of WCStr::from_slice_with_nul.
InteriorNulDocSlice == <<\hD83E, \hDD80, 0, \hD83E, \hDD80, 0>>

\* A leading surrogate whose lookahead unit is the leading surrogate of a
\* pair.
LeadLeadTrailSlice == <<\hD800, \hD800, \hDC00, 0>>

\* The slices of the doc tests, read as 16-bit units (u16, i16) or as
\* 32-bit units holding the same numbers (u32, i32).
DocSlices(t) ==
    {AsUnits(t, s) : s \in {CharsDocSlice, LenDocSlice, InteriorNulDocSlice,
                            LeadLeadTrailSlice}}

Slices(t) ==
    BoundedSeq(Units(t), MaxLen)
        \cup {EncodeWide(t, c) \o <<NUL>> : c \in ScalarSamples}
        \cup DocSlices(t)

-----------------------------------------------------------------------------
(* The state machine.                                                      *)

NoRet == [op |-> "none", n |-> 0, s |-> <<>>, k |-> 0]

NoneCount(o) == Cardinality({i \in DOMAIN o : o[i].tag = "None"})

Init ==
    /\ ty \in Types
    /\ buf \in Slices(ty)
    /\ cres = [ctor |-> "none", tag |-> "none", pos |-> 0]
    /\ ptr = -1
    /\ out = <<>>
    /\ rd = {}
    /\ ret = NoRet
    /\ ptr2 = -1

HasView == cres.tag = "Ok"

\* WCStr::from_ptr(buf.as_ptr()).  Its safety contract: the memory has a
\* NUL-terminator within the allocation.
FromPtr ==
    /\ cres.ctor = "none"
    /\ \E i \in DOMAIN buf : buf[i] = NUL
    /\ cres' = [ctor |-> "from_ptr", tag |-> "Ok", pos |-> 0]
    /\ UNCHANGED <<ty, buf, ptr, out, rd, ret, ptr2>>

\* WCStr::from_slice_with_nul(buf)
FromSliceWithNul ==
    /\ cres.ctor = "none"
    /\ cres' = [ctor |-> "from_slice_with_nul"] @@ from_slice_with_nul(buf)
    /\ UNCHANGED <<ty, buf, ptr, out, rd, ret, ptr2>>

\* WCStr::from_slice_with_nul_unchecked(buf).  Its safety contract: the
\* slice is NUL-terminated and has no interior NUL.
FromSliceWithNulUnchecked ==
    /\ cres.ctor = "none"
    /\ Len(buf) > 0
    /\ \A i \in DOMAIN buf : (buf[i] = NUL) <=> (i = Len(buf))
    /\ cres' = [ctor |-> "from_slice_with_nul_unchecked", tag |-> "Ok",
                pos |-> 0]
    /\ UNCHANGED <<ty, buf, ptr, out, rd, ret, ptr2>>

\* WCStr::len
LenOp ==
    /\ HasView
    /\ ret.k < MaxRepeat
    /\ ret' = [op |-> "len", n |-> len(buf), s |-> <<>>, k |-> ret.k + 1]
    /\ UNCHANGED <<ty, buf, cres, ptr, out, rd, ptr2>>

\* WCStr::to_slice
ToSlice ==
    /\ HasView
    /\ ret' = [op |-> "to_slice", n |-> 0, s |-> to_slice(buf), k |-> 0]
    /\ UNCHANGED <<ty, buf, cres, ptr, out, rd, ptr2>>

\* WCStr::to_slice_with_nul
ToSliceWithNul ==
    /\ HasView
    /\ ret' = [op |-> "to_slice_with_nul", n |-> 0,
               s |-> to_slice_with_nul(buf), k |-> 0]
    /\ UNCHANGED <<ty, buf, cres, ptr, out, rd, ptr2>>

\* WCStr::to_string_lossy
ToStringLossy ==
    /\ HasView
    /\ ret' = [op |-> "to_string_lossy", n |-> 0,
               s |-> to_string_lossy(ty, buf), k |-> 0]
    /\ UNCHANGED <<ty, buf, cres, ptr, out, rd, ptr2>>

\* Variant of chars() that resumes where the previous cursor stood.
CharsNew_Resume ==
    /\ HasView
    /\ ptr' = IF ptr >= 0 THEN ptr ELSE as_ptr(buf)
    /\ out' = <<>>
    /\ rd' = {}
    /\ UNCHANGED <<ty, buf, cres, ret, ptr2>>

\* WCStr::chars: Chars::new(self.as_ptr())
CharsNew ==
    /\ HasView
    /\ ptr' = as_ptr(buf)
    /\ out' = <<>>
    /\ rd' = {}
    /\ UNCHANGED <<ty, buf, cres, ret, ptr2>>

\* Iterator::next on the cursor.
CharsNext ==
    /\ ptr >= 0
    /\ NoneCount(out) < MaxNone
    /\ LET s == DecodeNext(ty, buf, ptr) IN
        /\ ptr' = s.ptr
        /\ out' = Append(out, s.res)
        /\ rd' = s.rd
    /\ UNCHANGED <<ty, buf, cres, ret, ptr2>>

\* Iterator::size_hint on the cursor; `at` is the cursor's offset.
SizeHint ==
    /\ ptr >= 0
    /\ ret' = [op |-> "size_hint", n |-> size_hint(ty, buf, ptr)[1],
               s |-> <<size_hint(ty, buf, ptr)[2]>>, k |-> 0, at |-> ptr]
    /\ UNCHANGED <<ty, buf, cres, ptr, out, rd, ptr2>>

\* ExactSizeIterator::len on a 32-bit cursor; `at` is the cursor's offset.
ExactLen ==
    /\ ptr >= 0
    /\ ~Is16(ty)
    /\ ret' = [op |-> "exact_len", n |-> exact_len(buf, ptr), s |-> <<>>,
               k |-> 0, at |-> ptr]
    /\ UNCHANGED <<ty, buf, cres, ptr, out, rd, ptr2>>

Next ==
    \/ FromPtr
    \/ FromSliceWithNul
    \/ FromSliceWithNulUnchecked
    \/ LenOp
    \/ ToSlice
    \/ ToSliceWithNul
    \/ ToStringLossy
    \/ CharsNew
    \/ CharsNext
    \/ SizeHint
    \/ ExactLen

Spec == Init /\ [][Next]_vars

-----------------------------------------------------------------------------
(* Two cursors on one view, with the operations of the view.               *)

\* WCStr::as_ptr
AsPtr ==
    /\ HasView
    /\ ret' = [op |-> "as_ptr", n |-> as_ptr(buf), s |-> <<>>, k |-> 0]
    /\ UNCHANGED <<ty, buf, cres, ptr, out, rd, ptr2>>

\* WCStr::chars for the second cursor: Chars::new(self.as_ptr())
Chars2New ==
    /\ HasView
    /\ ptr2' = as_ptr(buf)
    /\ UNCHANGED <<ty, buf, cres, ptr, out, rd, ret>>

\* Iterator::next on the second cursor (its result is dropped).
Chars2Next ==
    /\ ptr2 >= 0
    /\ ptr2' = DecodeNext(ty, buf, ptr2).ptr
    /\ UNCHANGED <<ty, buf, cres, ptr, out, rd, ret>>

NextCursors ==
    \/ FromPtr
    \/ FromSliceWithNul
    \/ FromSliceWithNulUnchecked
    \/ LenOp
    \/ ToSlice
    \/ ToSliceWithNul
    \/ AsPtr
    \/ CharsNew
    \/ CharsNext
    \/ Chars2New
    \/ Chars2Next

SpecCursors == Init /\ [][NextCursors]_vars

-----------------------------------------------------------------------------
(* The scans on their own: the length scan from any pointer into the       *)
(* buffer that has a NUL at or after it, and the needle search for any     *)
(* needle in any slice, each by its portable and its specialized path.     *)

\* SpecLen::wcslen(buf.add(start)) by the two portable implementations and
\* by libc.
ScanWcslen ==
    /\ \E start \in 0..(Len(buf) - 1) :
        /\ \E i \in (start + 1)..Len(buf) : buf[i] = NUL
        /\ ret' = [op |-> "wcslen", start |-> start,
                   portable |-> wcslen(buf, start),
                   counter |-> wcslen_counter(buf, start),
                   libc |-> libc_wcslen(buf, start)]
    /\ UNCHANGED <<ty, buf, cres, ptr, out, rd, ptr2>>

\* SpecWide::wmemchr(needle, buf) by the portable implementation and by
\* libc.
ScanWmemchr ==
    /\ \E needle \in Units(ty) :
        ret' = [op |-> "wmemchr", needle |-> needle,
                portable |-> wmemchr_portable(needle, buf),
                libc |-> wmemchr_wchar(needle, buf)]
    /\ UNCHANGED <<ty, buf, cres, ptr, out, rd, ptr2>>

NextScan ==
    \/ ScanWcslen
    \/ ScanWmemchr

SpecScan == Init /\ [][NextScan]_vars

-----------------------------------------------------------------------------
(* Vocabulary of the properties.                                           *)

\* The bit pattern of a unit of T as a number from 0 (16-bit types; 32-bit
\* units of the model are negative only when their top bit is set).
Bits16(x) == IF x < 0 THEN x + 65536 ELSE x

\* The offsets of the zero units of a buffer.
ZeroOffsets(b) == {i \in 0..(Len(b) - 1) : b[i + 1] = 0}

\* The offset of the first zero unit of a buffer that has one.
FirstZero(b) ==
    CHOOSE i \in ZeroOffsets(b) : \A j \in ZeroOffsets(b) : i <= j

\* A step of next() on the cursor: it returns one more result.
IsNextStep == ptr >= 0 /\ Len(out') = Len(out) + 1

\* The result the last call of next() returned.
LastRes(o) == o[Len(o)]

\* The cursor was created by chars() and next() has returned None.
Exhausted == ptr >= 0 /\ Len(out) > 0 /\ LastRes(out).tag = "None"

IsLead(u) == \hD800 <= u /\ u <= \hDBFF

IsTrail(u) == \hDC00 <= u /\ u <= \hDFFF

-----------------------------------------------------------------------------
\* C1: from_slice_with_nul(s) fails with NotNulTerminated when s has no
\* zero unit, fails with InteriorNul(i) when the first zero unit is at an
\* index i with i + 1 /= length(s), and succeeds with a view at s[0] when
\* the first zero unit is the last unit.
C1_FromSliceOutcomes ==
    cres.ctor = "from_slice_with_nul" =>
        IF ZeroOffsets(buf) = {}
        THEN cres.tag = "NotNulTerminated"
        ELSE IF FirstZero(buf) + 1 /= Len(buf)
             THEN cres.tag = "InteriorNul" /\ cres.pos = FirstZero(buf)
             ELSE cres.tag = "Ok" /\ cres.pos = 0

\* A slice with two zero units, the second at the end, was refused with
\* the index of the first.
C1_Witness ==
    /\ cres.ctor = "from_slice_with_nul"
    /\ Len(buf) = 3 /\ buf[1] /= 0 /\ buf[2] = 0 /\ buf[3] = 0
    /\ cres.tag = "InteriorNul" /\ cres.pos = 1

\* The results a cursor on the encoding of the scalar value c may have
\* returned: Ok(c), then None at every later call.
RoundTrips(c) ==
    (buf = EncodeWide(ty, c) \o <<NUL>> /\ ptr >= 0) =>
        \A k \in DOMAIN out : out[k] = IF k = 1 THEN Ok(c) ELSE None

\* C2 as stated: for every scalar value c of [0, 0x10FFFF] that is no
\* surrogate, decoding the encoding of c and a terminating zero yields
\* Ok(c) and then None.
C2_Original == \A c \in ScalarSamples : RoundTrips(c)

\* C2 as amended: the same for every scalar value c of [1, 0x10FFFF] that
\* is no surrogate.  (The encoding of U+0000 is the terminator itself.)
C2_RoundTripNonZero == \A c \in ScalarSamples \ {0} : RoundTrips(c)

\* A cursor on the surrogate pair of U+1F496 has returned the scalar value
\* and then None.
C2_Witness ==
    /\ Is16(ty)
    /\ buf = EncodeWide(ty, \h1F496) \o <<NUL>>
    /\ out = <<Ok(\h1F496), None>>

-----------------------------------------------------------------------------
\* C3: 16-bit decoding of a surrogate pair: when the cursor is on a unit u
\* of [0xD800, 0xDBFF] and the next unit u2 is in [0xDC00, 0xDFFF], one call
\* of next() returns Ok(((u - 0xD800) << 10 | (u2 - 0xDC00)) + 0x10000) and
\* advances the cursor by exactly 2 units.
C3_PairStep ==
    (/\ IsNextStep
     /\ Is16(ty)
     /\ IsLead(Bits16(buf[ptr + 1]))
     /\ IsTrail(Bits16(buf[ptr + 2])))
    => /\ ptr' = ptr + 2
       /\ LastRes(out') =
            Ok((Bits16(buf[ptr + 1]) - \hD800) * 1024
               + (Bits16(buf[ptr + 2]) - \hDC00) + \h10000)

\* C3: every step satisfies C3_PairStep.
C3_SurrogatePair == [][C3_PairStep]_vars

\* The pair 0xDBFF 0xDFFF was decoded to U+10FFFF in one call that moved
\* the cursor from offset 0 to offset 2.
C3_Witness ==
    /\ Is16(ty)
    /\ Len(buf) = 3
    /\ Bits16(buf[1]) = \hDBFF /\ Bits16(buf[2]) = \hDFFF
    /\ out = <<Ok(\h10FFFF)>> /\ ptr = 2

-----------------------------------------------------------------------------
\* C4: 16-bit decoding of a leading surrogate with no trailing surrogate:
\* when the cursor is on a unit u of [0xD800, 0xDBFF] and the next unit is
\* the terminating zero or any unit outside [0xDC00, 0xDFFF], next()
\* returns an error carrying u and advances the cursor by exactly 1 unit,
\* and the call after it reads the lookahead unit again; on [0xD800, 0] the
\* results are Err(0xD800) and then None, and no call reads a unit beyond
\* the terminator.
C4_LoneLeadStep ==
    /\ (/\ IsNextStep
        /\ Is16(ty)
        /\ IsLead(Bits16(buf[ptr + 1]))
        /\ ~IsTrail(Bits16(buf[ptr + 2])))
       => /\ ptr' = ptr + 1
          /\ LastRes(out') = Err(buf[ptr + 1])
    /\ (/\ IsNextStep
        /\ Is16(ty)
        /\ Len(out) > 0
        /\ LastRes(out).tag = "Err"
        /\ IsLead(Bits16(LastRes(out).val)))
       => ptr \in rd'
    /\ IsNextStep => \A i \in rd' : i <= FirstZero(buf)
    /\ (IsNextStep /\ Is16(ty) /\ Bits16(buf[1]) = \hD800 /\ buf[2] = 0)
       => \A k \in DOMAIN out' :
            out'[k] = IF k = 1 THEN Err(buf[1]) ELSE None

\* C4: every step satisfies C4_LoneLeadStep.
C4_LoneLead == [][C4_LoneLeadStep]_vars

\* On a buffer starting with 0xD800 and the terminator, next() has
\* returned the error and then None.
C4_Witness ==
    /\ Is16(ty)
    /\ Len(buf) = 2
    /\ Bits16(buf[1]) = \hD800 /\ buf[2] = 0
    /\ Len(out) = 2 /\ out[1] = Err(buf[1]) /\ out[2] = None
    /\ ptr = 1

-----------------------------------------------------------------------------
\* C5: 16-bit decoding of a low surrogate in leading position: when the
\* cursor is on a unit u of [0xDC00, 0xDFFF], next() returns an error whose
\* code() is u and advances the cursor by exactly 1 unit, whatever follows.
C5_LoneTrailStep ==
    (/\ IsNextStep
     /\ Is16(ty)
     /\ IsTrail(Bits16(buf[ptr + 1])))
    => /\ ptr' = ptr + 1
       /\ LastRes(out') = Err(buf[ptr + 1])

\* C5: every step satisfies C5_LoneTrailStep.
C5_LoneTrail == [][C5_LoneTrailStep]_vars

\* The unit 0xDC00, followed by another trailing surrogate, was reported
\* as an error and the cursor moved by one unit.
C5_Witness ==
    /\ Is16(ty)
    /\ Len(buf) >= 3
    /\ Bits16(buf[1]) = \hDC00 /\ IsTrail(Bits16(buf[2]))
    /\ out = <<Err(buf[1])>> /\ ptr = 1

-----------------------------------------------------------------------------
\* C6: 32-bit decoding: for every non-zero unit u under the cursor, next()
\* advances the cursor by exactly 1 unit and returns Ok(u) when u is a
\* scalar value (u <= 0x10FFFF and u not in [0xD800, 0xDFFF]), and
\* otherwise an error carrying u.  (A negative i32 unit is a u32 above
\* 0x10FFFF.)
C6_Step32 ==
    (/\ IsNextStep
     /\ ~Is16(ty)
     /\ buf[ptr + 1] /= 0)
    => /\ ptr' = ptr + 1
       /\ LastRes(out') =
            IF /\ 0 < buf[ptr + 1] /\ buf[ptr + 1] <= \h10FFFF
               /\ ~(\hD800 <= buf[ptr + 1] /\ buf[ptr + 1] <= \hDFFF)
            THEN Ok(buf[ptr + 1])
            ELSE Err(buf[ptr + 1])

\* C6: every step satisfies C6_Step32.
C6_Decode32 == [][C6_Step32]_vars

\* A 32-bit cursor has returned an error for a unit beyond U+10FFFF and
\* then the last scalar value.
C6_Witness ==
    /\ ~Is16(ty)
    /\ Len(out) = 2
    /\ out[1].tag = "Err" /\ (out[1].val > \h10FFFF \/ out[1].val < 0)
    /\ out[2] = Ok(\h10FFFF)
    /\ ptr = 2

-----------------------------------------------------------------------------
\* The units one result of next() stands for: 2 for a scalar value above
\* 0xFFFF of a 16-bit buffer, 0 for None, 1 otherwise.
Consumed(t, r) ==
    IF r.tag = "None" THEN 0
    ELSE IF Is16(t) /\ r.tag = "Ok" /\ r.val > \hFFFF THEN 2
    ELSE 1

\* The units the first k results of o stand for.
RECURSIVE ConsumedBy(_, _, _)
ConsumedBy(t, o, k) ==
    IF k = 0 THEN 0 ELSE ConsumedBy(t, o, k - 1) + Consumed(t, o[k])

\* The buffer b without its first q units.
Suffix(b, q) == SubSeq(b, q + 1, Len(b))

\* The first n results of a cursor on the buffer b that starts at offset p.
RECURSIVE Results(_, _, _, _)
Results(t, b, p, n) ==
    IF n = 0 THEN <<>>
    ELSE <<DecodeNext(t, b, p).res>>
            \o Results(t, b, DecodeNext(t, b, p).ptr, n - 1)

\* The results the doc test of WCStr::chars expects, and None from then on.
CharsDocResult(t, k) ==
    IF k > 8 THEN None
    ELSE <<Ok(\h1D11E), Ok(\h6D), Ok(\h75), Ok(\h73),
           Err(AsUnits(t, CharsDocSlice)[6]), Ok(\h69), Ok(\h63),
           Err(AsUnits(t, CharsDocSlice)[9])>>[k]

\* C7: decode errors do not stop or poison iteration: the error returned
\* by the k-th call of next() carries the unit the calls before it had not
\* consumed, and the results of the calls after it are the results of a
\* fresh cursor on the units that follow that unit; the doc test's slice
\* yields Ok, Ok, Ok, Ok, Err(0xDD1E), Ok('i'), Ok('c'), Err(0xD834), None.
C7_ErrorsAreLocal ==
    ptr >= 0 =>
        /\ \A k \in DOMAIN out :
            out[k].tag = "Err" =>
                LET q == ConsumedBy(ty, out, k) IN
                /\ buf[q] = out[k].val
                /\ SubSeq(out, k + 1, Len(out))
                     = Results(ty, Suffix(buf, q), 0, Len(out) - k)
        /\ (Is16(ty) /\ buf = AsUnits(ty, CharsDocSlice))
           => \A k \in DOMAIN out : out[k] = CharsDocResult(ty, k)

\* The cursor on the doc test's slice has returned its two errors, the
\* scalar values between them and None.
C7_Witness ==
    /\ Is16(ty)
    /\ buf = AsUnits(ty, CharsDocSlice)
    /\ Len(out) = 9
    /\ out[5].tag = "Err" /\ out[6] = Ok(\h69) /\ out[8].tag = "Err"
    /\ out[9] = None

-----------------------------------------------------------------------------
\* C8: len() returns the number of units before the first zero unit of the
\* buffer (units, not scalar values: 7 on the doc test's slice, whose first
\* two units are one surrogate pair); on a view that from_slice_with_nul(s)
\* returned it is length(s) - 1; a call that follows another returns the
\* same value.
C8_LenStep ==
    /\ ret'.op = "len" =>
        /\ ret'.n = FirstZero(buf')
        /\ cres'.ctor = "from_slice_with_nul" => ret'.n = Len(buf') - 1
        /\ buf' = AsUnits(ty', LenDocSlice) => ret'.n = 7
    /\ (ret.op = "len" /\ ret'.op = "len") => ret'.n = ret.n

\* C8: every step satisfies C8_LenStep.
C8_LenCountsUnits == [][C8_LenStep]_vars

\* len() has returned 7 twice in a row on the doc test's slice, after a
\* cursor on it had returned 6 results.
C8_Witness ==
    /\ Is16(ty)
    /\ buf = AsUnits(ty, LenDocSlice)
    /\ cres.ctor = "from_slice_with_nul"
    /\ Len(out) = 6
    /\ ret.op = "len" /\ ret.n = 7 /\ ret.k = 2

-----------------------------------------------------------------------------
\* C9: slice round trip: on the view of a slice s that from_slice_with_nul
\* accepted, to_slice_with_nul() is s (len() + 1 units, the last one zero)
\* and to_slice() is s without its last unit (len() units, none zero).
C9_SliceRoundTrip ==
    cres.ctor = "from_slice_with_nul" =>
        /\ ret.op = "to_slice_with_nul" =>
            /\ ret.s = buf
            /\ Len(ret.s) = len(buf) + 1
            /\ ret.s[Len(ret.s)] = 0
        /\ ret.op = "to_slice" =>
            /\ ret.s = SubSeq(buf, 1, Len(buf) - 1)
            /\ Len(ret.s) = len(buf)
            /\ \A i \in DOMAIN ret.s : ret.s[i] /= 0

\* to_slice() has returned the two units before the terminator of an
\* accepted slice of three units.
C9_Witness ==
    /\ cres.ctor = "from_slice_with_nul"
    /\ Len(buf) = 3
    /\ ret.op = "to_slice" /\ Len(ret.s) = 2 /\ ret.s[2] = buf[2]

-----------------------------------------------------------------------------
\* The results of an exhausted cursor, without the None at their end.
Yielded(o) == SelectSeq(o, LAMBDA r : r.tag /= "None")

\* How many elements of the sequence s satisfy Test.
Count(s, Test(_)) == Cardinality({i \in DOMAIN s : Test(s[i])})

\* C10: to_string_lossy() is the sequence of results of chars() with every
\* Err replaced by U+FFFD and every Ok(c) by c: as many scalar values as
\* decode steps, one U+FFFD for each error besides the U+FFFD the input
\* encodes, every decoded scalar value at its position; on the doc test's
\* slice it is U+1D11E 'm' 'u' 's' U+FFFD 'i' 'c' U+FFFD.
C10_Lossy ==
    ret.op = "to_string_lossy" =>
        /\ Exhausted =>
            /\ Len(ret.s) = Len(Yielded(out))
            /\ \A k \in DOMAIN ret.s :
                ret.s[k] = IF out[k].tag = "Ok" THEN out[k].val ELSE \hFFFD
            /\ Count(ret.s, LAMBDA c : c = \hFFFD)
                 = Count(out, LAMBDA r : r.tag = "Err")
                     + Count(out, LAMBDA r : r = Ok(\hFFFD))
        /\ (Is16(ty) /\ buf = AsUnits(ty, CharsDocSlice))
           => ret.s = <<\h1D11E, \h6D, \h75, \h73, \hFFFD, \h69, \h63,
                        \hFFFD>>

\* to_string_lossy() has returned a string for a buffer that holds an
\* encoded U+FFFD and a unit that decodes to an error, and a cursor on the
\* same view is exhausted.
C10_Witness ==
    /\ ret.op = "to_string_lossy"
    /\ Exhausted
    /\ Len(buf) = 3
    /\ out = <<Ok(\hFFFD), Err(buf[2]), None>>
    /\ ret.s = <<\hFFFD, \hFFFD>>

-----------------------------------------------------------------------------
\* The offsets at which the needle occurs in the haystack.
Occurrences(needle, haystack) ==
    {i \in 0..(Len(haystack) - 1) : haystack[i + 1] = needle}

\* C11: the portable length scan and needle search agree with the
\* specialized (libc) ones on every input: wcslen(buf) is the index of the
\* first zero unit from buf, wmemchr(needle, haystack) is the index of the
\* first occurrence of the needle or nothing when it is absent (0 for
\* [0x0000] and for an all-matching haystack, nothing for the empty
\* haystack), and the counter-based wcslen of char.rs returns what the
\* pointer-difference wcslen of char/mod.rs returns.
C11_ScansAgree ==
    /\ ret.op = "wcslen" =>
        /\ ret.portable = ret.libc
        /\ ret.counter = ret.portable
        /\ ret.portable = FirstZero(Suffix(buf, ret.start))
        /\ buf = <<0>> => ret.portable = 0
    /\ ret.op = "wmemchr" =>
        /\ ret.portable = ret.libc
        /\ ret.portable.some <=> Occurrences(ret.needle, buf) /= {}
        /\ ret.portable.some =>
            /\ ret.portable.val \in Occurrences(ret.needle, buf)
            /\ \A i \in Occurrences(ret.needle, buf) : ret.portable.val <= i
        /\ buf = <<>> => ~ret.portable.some
        /\ (buf /= <<>> /\ \A i \in DOMAIN buf : buf[i] = ret.needle)
           => ret.portable = SomeIdx(0)

\* The length scan from the second unit of a buffer whose first zero unit
\* is its third unit has returned 1 by every path.
C11_Witness ==
    /\ ret.op = "wcslen"
    /\ Len(buf) = 3 /\ buf[1] /= 0 /\ buf[2] /= 0 /\ buf[3] = 0
    /\ ret.start = 1
    /\ ret.portable = 1 /\ ret.counter = 1 /\ ret.libc = 1

-----------------------------------------------------------------------------
\* The units between the offset p and the terminator.
Remaining(b, p) == FirstZero(b) - p

\* The number of results next() yields from offset p before it returns
\* None, counted by stepping the decoder.
RECURSIVE StepsLeft(_, _, _)
StepsLeft(t, b, p) ==
    IF DecodeNext(t, b, p).res.tag = "None" THEN 0
    ELSE 1 + StepsLeft(t, b, DecodeNext(t, b, p).ptr)

\* C12: at a cursor position with r units left before the terminator,
\* size_hint() returns (r div 2, r) for the 16-bit types and (r, r) for the
\* 32-bit types; the number n of results next() still yields satisfies
\* r div 2 <= n <= r (16-bit) and n = r (32-bit), and ExactSizeIterator's
\* len() of a 32-bit cursor is n.
C12_SizeHint ==
    /\ ret.op = "size_hint" =>
        LET r == Remaining(buf, ret.at)
            n == StepsLeft(ty, buf, ret.at)
        IN  /\ ret.n = IF Is16(ty) THEN r \div 2 ELSE r
            /\ ret.s = <<r>>
            /\ ret.n <= n /\ n <= ret.s[1]
            /\ ~Is16(ty) => n = r
    /\ ret.op = "exact_len" =>
        /\ ret.n = Remaining(buf, ret.at)
        /\ ret.n = StepsLeft(ty, buf, ret.at)

\* size_hint() has returned (1, 2) on a 16-bit cursor that stands before
\* one surrogate pair, after one unit was decoded.
C12_Witness ==
    /\ Is16(ty)
    /\ buf = AsUnits(ty, LeadLeadTrailSlice)
    /\ ret.op = "size_hint" /\ ret.at = 1
    /\ ret.n = 1 /\ ret.s = <<2>>
    /\ ptr = 1

-----------------------------------------------------------------------------
\* C13: chars() returns a cursor at the first unit of the view whatever
\* ran before (len, to_slice, to_slice_with_nul, as_ptr, other cursors and
\* their next() calls); a call of next() on one cursor leaves the position
\* of the other cursor unchanged; no operation of the view or of a cursor
\* changes a unit of the buffer or the position of a cursor it was not
\* called on.
C13_FreshStep ==
    /\ buf' = buf
    /\ (~IsNextStep /\ <<ptr, out>>' /= <<ptr, out>>)
       => ptr' = 0 /\ out' = <<>> /\ ptr2' = ptr2
    /\ IsNextStep => ptr2' = ptr2
    /\ (ptr2' /= ptr2 /\ (ptr2 = -1 \/ ptr2' < ptr2)) => ptr2' = 0
    /\ ptr2' /= ptr2 => ptr' = ptr /\ out' = out
    /\ ret' /= ret => ptr' = ptr /\ out' = out /\ ptr2' = ptr2

\* C13: every step satisfies C13_FreshStep.
C13_CursorsIndependent == [][C13_FreshStep]_vars

\* A fresh first cursor stands at the first unit while the second cursor
\* has moved past a surrogate pair and to_slice() was the last view
\* operation.
C13_Witness ==
    /\ Is16(ty)
    /\ ptr = 0 /\ out = <<>>
    /\ ptr2 = 2
    /\ ret.op = "to_slice" /\ Len(ret.s) = 2

-----------------------------------------------------------------------------
\* C14: with the first zero unit of the buffer at offset n, the offset p
\* of a cursor made by chars() satisfies 0 <= p <= n before and after every
\* call of next(); a call never moves the cursor backwards, reads no unit
\* at an offset greater than n, returns None exactly when p = n, and, once
\* a call has returned None, returns None again and leaves p unchanged.
C14_SafeStep ==
    IsNextStep =>
        LET n == FirstZero(buf) IN
        /\ 0 <= ptr /\ ptr <= n
        /\ 0 <= ptr' /\ ptr' <= n
        /\ ptr' >= ptr
        /\ rd' /= {} /\ \A i \in rd' : ptr <= i /\ i <= n
        /\ (LastRes(out').tag = "None") <=> (ptr = n)
        /\ LastRes(out').tag = "None" => ptr' = ptr
        /\ Exhausted => LastRes(out').tag = "None" /\ ptr' = ptr

\* C14: every step satisfies C14_SafeStep.
C14_CursorSafe == [][C14_SafeStep]_vars

\* A view made by from_ptr of memory that goes on after the terminator:
\* the cursor read the lookahead unit at offset n = 1 after the leading
\* surrogate, stopped there, and returned None twice.
C14_Witness ==
    /\ Is16(ty)
    /\ ptr = 1
    /\ Len(buf) = 3 /\ FirstZero(buf) = 1 /\ buf[3] /= NUL
    /\ Len(out) = 3 /\ out[1].tag = "Err" /\ out[2] = None /\ out[3] = None
    /\ rd = {1}

-----------------------------------------------------------------------------
\* A Unicode scalar value: at most 0x10FFFF and no surrogate code point.
IsScalar(c) == 0 <= c /\ c <= \h10FFFF /\ ~(\hD800 <= c /\ c <= \hDFFF)

\* C15: every Ok(c) that next() returns holds a Unicode scalar value, for
\* both widths and all buffer contents.  In the step that decodes a
\* surrogate pair u, u2 the differences u - 0xD800 and u2 - 0xDC00 lie in
\* 0..0x3FF (no 16-bit wrap), the shifted high part is at most 0xFFC00 and
\* shares no bit with the low part, and the sum with 0x10000 lies in
\* 0x10000..0x10FFFF (no 32-bit wrap).
C15_ScalarStep ==
    IsNextStep =>
        LET r == LastRes(out') IN
        /\ r.tag = "Ok" => IsScalar(r.val)
        /\ (Is16(ty) /\ r.tag = "Ok" /\ ptr' = ptr + 2) =>
            LET hi == AsU16(Read(buf, ptr)) - \hD800
                lo == AsU16(Read(buf, ptr + 1)) - \hDC00
            IN  /\ 0 <= hi /\ hi <= \h3FF
                /\ 0 <= lo /\ lo <= \h3FF
                /\ Shl10(hi) <= \hFFC00
                /\ BitOr(Shl10(hi), lo) = Shl10(hi) + lo
                /\ r.val = Shl10(hi) + lo + \h10000
                /\ \h10000 <= r.val /\ r.val <= \h10FFFF
        /\ (Is16(ty) /\ r.tag = "Ok" /\ ptr' = ptr + 1) =>
            r.val = AsU16(Read(buf, ptr))
        /\ (~Is16(ty) /\ r.tag = "Ok") =>
            r.val = AsU32(Read(buf, ptr))[1] * 65536 + AsU32(Read(buf, ptr))[2]

\* C15: every step satisfies C15_ScalarStep.
C15_OkIsScalar == [][C15_ScalarStep]_vars

\* The smallest pair 0xD800 0xDC00 of an i16 view, whose units are
\* negative as i16, has decoded to U+10000.
C15_Witness ==
    /\ ty = "i16"
    /\ ptr = 2
    /\ buf = <<\hD800 - 65536, \hDC00 - 65536, NUL>>
    /\ out = <<Ok(\h10000)>>

-----------------------------------------------------------------------------
\* The offsets a cursor that starts at offset p stands at before each call
\* of next(), up to the call that returns None.
RECURSIVE Offsets(_, _, _)
Offsets(t, b, p) ==
    IF DecodeNext(t, b, p).res.tag = "None" THEN <<p>>
    ELSE <<p>> \o Offsets(t, b, DecodeNext(t, b, p).ptr)

\* The decode steps, of a cursor with the offsets offs, that consumed the
\* unit at offset i.
CoveredBy(offs, i) ==
    {j \in 1..(Len(offs) - 1) : offs[j] <= i /\ i < offs[j + 1]}

\* C16: for a view with len() = n, a call of next() that returns a result
\* moves the cursor by 1 or 2 units (by 1 for the 32-bit types) and a call
\* that returns None does not move it; the cursor follows the offsets of
\* the decoder from offset 0 and nothing but chars() repositions it; when
\* None is returned the cursor is at offset n, the k results returned
\* before satisfy k <= n, 2 * k >= n for the 16-bit types and k = n for the
\* 32-bit types, and every unit before the terminator was consumed by
\* exactly one step.
C16_ExhaustStep ==
    /\ (~IsNextStep /\ ptr' /= ptr) => ptr' = 0 /\ out' = <<>>
    /\ IsNextStep =>
        LET r == LastRes(out')
            d == ptr' - ptr
            k == Len(Yielded(out'))
            n == len(buf)
            offs == Offsets(ty, buf, 0)
        IN  /\ r.tag /= "None" => d \in {1, 2} /\ (~Is16(ty) => d = 1)
            /\ r.tag = "None" => d = 0
            /\ k + 1 <= Len(offs) /\ ptr' = offs[k + 1]
            /\ r.tag = "None" =>
                /\ ptr' = n
                /\ k + 1 = Len(offs)
                /\ k <= n
                /\ IF Is16(ty) THEN 2 * k >= n ELSE k = n
                /\ \A i \in 0..(n - 1) : Cardinality(CoveredBy(offs, i)) = 1

\* C16: every step satisfies C16_ExhaustStep.
C16_Exhaustion == [][C16_ExhaustStep]_vars

\* A view of three units was exhausted in two results, a step of one unit
\* (a leading surrogate without its trail) and a step of two units (a
\* pair), and None.
C16_Witness ==
    /\ ty = "u16"
    /\ ptr = 3
    /\ buf = LeadLeadTrailSlice
    /\ out = <<Err(\hD800), Ok(\h10000), None>>

====
